---- MODULE Spec2Model ----
(***************************************************************************)
(* Model of the FormValidator engine of react-insta-validation             *)
(* (src/src/FormValidator.js) together with the bindValue helper           *)
(* (src/src/form-utils.js).                                                *)
(*                                                                         *)
(* JavaScript values are tagged tuples: <<"undefined">>, <<"string", s>>,  *)
(* <<"number", n>>, <<"boolean", b>>, <<"null">>, <<"array", seq>>,         *)
(* <<"object", f>> (f a function from keys to values), <<"date", iso>> (a   *)
(* Date object with its ISO string) and <<"function", id>>.                 *)
(***************************************************************************)
EXTENDS Integers, Sequences, FiniteSets, TLC

VARIABLES globalRules, formRules, fieldValidations, formState, validationResult,
          formComponents, convertNumberToString, defaultMessage,
          lastOp, lastForm, lastDecls, outcomes, received, touched, prevResult,
          prevRules, supplied, call, context, peer

vars == <<globalRules, formRules, fieldValidations, formState, validationResult,
          formComponents, convertNumberToString, defaultMessage,
          lastOp, lastForm, lastDecls, outcomes, received, touched, prevResult,
          prevRules, supplied, call, context, peer>>

\* The constructor options, fixed once the engine is constructed.
options == <<convertNumberToString, defaultMessage>>

-----------------------------------------------------------------------------
(* JavaScript values *)

Undefined == <<"undefined">>
Null == <<"null">>
Str(s) == <<"string", s>>
Num(n) == <<"number", n>>
Bool(b) == <<"boolean", b>>
Obj(f) == <<"object", f>>
Arr(seq) == <<"array", seq>>
DateOf(iso) == <<"date", iso>>
Fn(id) == <<"function", id>>
EmptyObject == Obj(<<>>)

\* typeof v, with "null" and "array" kept apart from the other objects.
TypeOf(v) == IF v[1] = "date" THEN "object" ELSE v[1]

\* JavaScript truthiness, as used by `a || b`, `a && b` and `if (a)`.
Truthy(v) ==
    CASE TypeOf(v) = "undefined" -> FALSE
      [] TypeOf(v) = "null" -> FALSE
      [] TypeOf(v) = "string" -> v[2] # ""
      [] TypeOf(v) = "number" -> v[2] # 0
      [] TypeOf(v) = "boolean" -> v[2]
      [] OTHER -> TRUE

\* a || b
Or(a, b) == IF Truthy(a) THEN a ELSE b

-----------------------------------------------------------------------------
(* Bounds and inputs *)

\* Longest rule list the model registers.
MaxRules == 2

\* The strings form fields take; StrLen is String.prototype.length on them.
Strings == {"", "a@b.se", "foobarbaz"}
StrLen(s) ==
    CASE s = "" -> 0
      [] s = "a@b.se" -> 6
      [] s = "foobarbaz" -> 9
      [] s \in {"0", "5"} -> 1
      [] OTHER -> 3

\* Field paths with their segments (path.split(".")).
Split(path) ==
    CASE path = "company.name" -> <<"company", "name">>
      [] path = "company.city" -> <<"company", "city">>
      [] path = "owner.name" -> <<"owner", "name">>
      [] OTHER -> <<path>>

FieldNames == {"a", "b"}

-----------------------------------------------------------------------------
(* Path Accessor: object-path get/set as used through getPropertyByPath    *)
(* and bindValue.                                                          *)

HasOwn(obj, key) == obj[1] = "object" /\ key \in DOMAIN obj[2]

RECURSIVE GetPath(_, _)
GetPath(obj, path) ==
    IF path = <<>> THEN obj
    ELSE IF ~HasOwn(obj, Head(path)) THEN Undefined
    ELSE IF obj[2][Head(path)] = Undefined THEN Undefined
    ELSE GetPath(obj[2][Head(path)], Tail(path))

\* objectPath.get(obj, path) inside try/catch: undefined when any segment is
\* missing; a missing path yields the object itself.
getPropertyByPath(obj, path) ==
    IF ~Truthy(path) THEN obj ELSE GetPath(obj, Split(path[2]))

\* obj[key] = value on a plain object.
PutKey(obj, key, value) ==
    Obj([k \in DOMAIN obj[2] \cup {key} |-> IF k = key THEN value ELSE obj[2][k]])

RECURSIVE SetPath(_, _, _)
SetPath(obj, path, value) ==
    IF Len(path) = 1 THEN PutKey(obj, Head(path), value)
    ELSE LET cur == IF HasOwn(obj, Head(path)) THEN obj[2][Head(path)] ELSE Undefined
             child == IF cur = Undefined THEN EmptyObject ELSE cur
         IN PutKey(obj, Head(path), SetPath(child, Tail(path), value))

\* JSON.parse(JSON.stringify(v)): a deep copy in which a member that is
\* undefined or a function is dropped from an object and is null in an array,
\* and a Date is the string its toJSON gives.
RECURSIVE JsonClone(_)
JsonClone(v) ==
    CASE v[1] = "object" ->
            LET keep == {k \in DOMAIN v[2] : v[2][k][1] \notin {"undefined", "function"}}
            IN Obj([k \in keep |-> JsonClone(v[2][k])])
      [] v[1] = "array" ->
            Arr([i \in 1..Len(v[2]) |->
                    IF v[2][i][1] \in {"undefined", "function"} THEN Null
                    ELSE JsonClone(v[2][i])])
      [] v[1] = "date" -> Str(v[2])
      [] OTHER -> v

\* bindValue: deep-copies the target, then objectPath.set on the copy.
bindValue(path, value, target) ==
    LET newTarget == JsonClone(IF Truthy(target) THEN target ELSE EmptyObject)
    IN IF ~Truthy(path) THEN newTarget ELSE SetPath(newTarget, Split(path[2]), value)

-----------------------------------------------------------------------------
(* bindValue on objects with identity.  The heap is a sequence of objects, *)
(* an object a function from keys to cells, a cell a primitive value or     *)
(* the reference <<"ref", a>> of the object at address a.                   *)

Ref(a) == <<"ref", a>>

\* obj[key] = cell on the object itself.
PutField(object, key, cell) ==
    [k \in DOMAIN object \cup {key} |-> IF k = key THEN cell ELSE object[k]]

\* The value a cell stands for.
RECURSIVE Deref(_, _)
Deref(heap, cell) ==
    IF cell[1] = "ref"
    THEN Obj([k \in DOMAIN heap[cell[2]] |-> Deref(heap, heap[cell[2]][k])])
    ELSE cell

\* Builds the objects of value v as new objects of the heap (JSON.parse, an
\* object literal).
RECURSIVE Alloc(_, _)
RECURSIVE AllocMembers(_, _, _, _)
Alloc(heap, v) ==
    IF v[1] # "object" THEN [heap |-> heap, cell |-> v]
    ELSE [heap |-> AllocMembers(Append(heap, <<>>), Len(heap) + 1, v, DOMAIN v[2]),
          cell |-> Ref(Len(heap) + 1)]

AllocMembers(heap, a, v, keys) ==
    IF keys = {} THEN heap
    ELSE LET k == CHOOSE x \in keys : TRUE
             m == Alloc(heap, v[2][k])
         IN AllocMembers([m.heap EXCEPT ![a] = PutField(@, k, m.cell)], a, v, keys \ {k})

\* A copy that is the object it was given.
SameObject(heap, cell) == [heap |-> heap, cell |-> cell]

\* JSON.parse(JSON.stringify(target)): the text of the target, parsed into
\* new objects.
HeapJsonClone(heap, cell) == Alloc(heap, JsonClone(Deref(heap, cell)))

\* objectPath.set(obj, path, value): walks the path from the object at
\* address a, creating the objects that are missing, and assigns the last key.
RECURSIVE HeapSet(_, _, _, _)
HeapSet(heap, a, path, value) ==
    IF Len(path) = 1 THEN [heap EXCEPT ![a] = PutField(@, Head(path), value)]
    ELSE LET cur == IF Head(path) \in DOMAIN heap[a] THEN heap[a][Head(path)]
                    ELSE Undefined
         IN IF cur = Undefined
            THEN HeapSet([Append(heap, <<>>) EXCEPT
                             ![a] = PutField(@, Head(path), Ref(Len(heap) + 1))],
                         Len(heap) + 1, Tail(path), value)
            ELSE HeapSet(heap, cur[2], Tail(path), value)

\* bindValue(path, value, target) on the heap: the heap after the call and the
\* reference it returns.
heapBindValue(heap, path, value, target) ==
    LET newTarget == IF Truthy(target) THEN HeapJsonClone(heap, target)
                     ELSE HeapJsonClone(heap, EmptyObject)
    IN [heap |-> IF ~Truthy(path) THEN newTarget.heap
                 ELSE HeapSet(newTarget.heap, newTarget.cell[2], Split(path[2]), value),
        cell |-> newTarget.cell]

-----------------------------------------------------------------------------
(* Rule templates and field declarations *)

\* Defaults of the constructor options.
DefaultOptions == [convertNumberToString |-> TRUE, defaultMessage |-> "Invalid"]

Template(name, method, validWhen, skipIfEmpty, message) ==
    [name |-> name, method |-> method, args |-> Undefined,
     validWhen |-> validWhen, skipIfEmpty |-> skipIfEmpty, message |-> message]

\* {...this.formRules[name]} for a name that is not registered.
NoTemplate == Template(Undefined, Undefined, Undefined, Undefined, Undefined)

\* The global templates registered before the engine is constructed.
RegisteredGlobalRules ==
    [n \in {"required", "email"} |->
        IF n = "required"
        THEN Template(Str("required"), Str("isEmpty"), Bool(FALSE), Bool(FALSE),
                      Str("Field is required"))
        ELSE Template(Str("email"), Str("isEmail"), Bool(TRUE), Undefined,
                      Str("Ogiltig e-postadress"))]

Decl(field, name, method, message, validWhen, skipIfEmpty, groupId) ==
    [field |-> field, name |-> name, method |-> method, message |-> message,
     args |-> Undefined, validWhen |-> validWhen, skipIfEmpty |-> skipIfEmpty,
     groupId |-> groupId]

\* The declarations the model registers.
RequiredA == Decl(Str("a"), Str("required"), Undefined, Undefined, Undefined, Undefined, Undefined)
LengthA == Decl(Str("a"), Undefined, Fn("fnLength"), Str("Must be 1-6 chars"),
                Undefined, Bool(FALSE), Undefined)
EmailB == Decl(Str("b"), Str("email"), Undefined, Undefined, Undefined, Undefined, Undefined)
MatchA == Decl(Str("a"), Undefined, Fn("fnMatch"), Str("Passwords does not match"),
               Undefined, Bool(FALSE), Str("g"))
MatchB == Decl(Str("b"), Undefined, Fn("fnMatch"), Undefined, Undefined, Undefined, Str("g"))

Decls == {RequiredA, LengthA, EmailB, MatchA, MatchB}

\* The calls of registerFieldValidations: the array of declarations and the
\* name of the component passed with it ("" when none is passed). A mounted
\* field component registers the rules of its own field; a form registers the
\* rules of several fields directly.
Registrations ==
    {<<<<RequiredA, LengthA>>, "a">>, <<<<LengthA>>, "a">>, <<<<EmailB>>, "b">>,
     <<<<MatchA, MatchB>>, "">>}

-----------------------------------------------------------------------------
(* registerFieldValidations *)

\* Destructuring default: `x = d` applies when x is undefined.
Default(x, d) == IF x = Undefined THEN d ELSE x

\* The property key a name stands for: rules[undefined] is rules["undefined"].
PropertyKey(name) == IF name = Undefined THEN "undefined" ELSE name[2]

\* { ...rules[name] }
LookupTemplate(rules, name) ==
    IF PropertyKey(name) \in DOMAIN rules THEN rules[PropertyKey(name)] ELSE NoTemplate

\* A registration that takes a declaration without name and field.
AcceptsAnonymous(decl) == FALSE

\* if (!name && !field)
MissingNameAndField(decl) == ~Truthy(decl.name) /\ ~Truthy(decl.field)

\* A registration that never finds a declaration registered.
NeverRegistered(fvs, decl) == FALSE

\* A registration that compares field and name also when the name is not set.
RegisteredAlsoUnnamed(fvs, decl) ==
    \E i \in 1..Len(fvs) : fvs[i].field = decl.field /\ fvs[i].name = decl.name

IsAlreadyRegistered(fvs, decl) ==
    /\ Truthy(decl.name)
    /\ \E i \in 1..Len(fvs) : fvs[i].field = decl.field /\ fvs[i].name = decl.name

\* A resolution in which what the declaration sets wins over the template.
ResolveDeclarationFirst(rules, decl) ==
    LET validationSpec ==
            IF TypeOf(decl.name) = "string" /\ decl.name[2] \in DOMAIN rules
            THEN rules[decl.name[2]]
            ELSE [name |-> Undefined, method |-> Undefined, args |-> Undefined,
                  validWhen |-> Undefined, skipIfEmpty |-> Undefined, message |-> Undefined]
        First(d, t, dflt) == IF d # Undefined THEN d ELSE IF t # Undefined THEN t ELSE dflt
    IN [field |-> decl.field,
        groupId |-> decl.groupId,
        name |-> decl.name,
        message |-> First(decl.message, validationSpec.message, Undefined),
        method |-> First(decl.method, validationSpec.method, Undefined),
        args |-> First(decl.args, validationSpec.args, <<"array", <<>> >>),
        validWhen |-> First(decl.validWhen, validationSpec.validWhen, <<"boolean", TRUE>>),
        skipIfEmpty |-> First(decl.skipIfEmpty, validationSpec.skipIfEmpty, <<"boolean", TRUE>>)]

\* A resolution in which the template's message wins over the declaration's.
ResolveTemplateMessageFirst(rules, decl) ==
    LET named == TypeOf(decl.name) = "string" /\ decl.name[2] \in DOMAIN rules
        t == IF named THEN rules[decl.name[2]]
             ELSE [method |-> Undefined, args |-> Undefined, validWhen |-> Undefined,
                   skipIfEmpty |-> Undefined, message |-> Undefined]
    IN [field |-> decl.field,
        groupId |-> decl.groupId,
        name |-> decl.name,
        message |-> IF Truthy(t.message) THEN t.message ELSE decl.message,
        method |-> IF Truthy(t.method) THEN t.method ELSE decl.method,
        args |-> IF Truthy(t.args) THEN t.args
                 ELSE IF decl.args = Undefined THEN <<"array", <<>> >> ELSE decl.args,
        validWhen |-> IF t.validWhen # Undefined THEN t.validWhen
                      ELSE IF decl.validWhen = Undefined THEN <<"boolean", TRUE>>
                      ELSE decl.validWhen,
        skipIfEmpty |-> IF t.skipIfEmpty # Undefined THEN t.skipIfEmpty
                        ELSE IF decl.skipIfEmpty = Undefined THEN <<"boolean", TRUE>>
                        ELSE decl.skipIfEmpty]

ResolveFieldValidation(rules, decl) ==
    LET validationSpec == LookupTemplate(rules, decl.name)
    IN [field |-> decl.field,
        groupId |-> decl.groupId,
        name |-> decl.name,
        message |-> Or(decl.message, validationSpec.message),
        method |-> Or(validationSpec.method, decl.method),
        args |-> Or(validationSpec.args, Default(decl.args, Arr(<<>>))),
        validWhen |-> IF validationSpec.validWhen # Undefined
                      THEN validationSpec.validWhen
                      ELSE Default(decl.validWhen, Bool(TRUE)),
        skipIfEmpty |-> IF validationSpec.skipIfEmpty # Undefined
                        THEN validationSpec.skipIfEmpty
                        ELSE Default(decl.skipIfEmpty, Bool(TRUE))]

\* The forEach of registerFieldValidations over decls[i..]; `thrown` is set by
\* the declaration that has neither name nor field, and ends the loop.
RECURSIVE RegisterFrom(_, _, _, _)
RegisterFrom(rules, fvs, decls, i) ==
    IF i > Len(decls) THEN [fieldValidations |-> fvs, thrown |-> FALSE]
    ELSE IF MissingNameAndField(decls[i]) THEN [fieldValidations |-> fvs, thrown |-> TRUE]
    ELSE IF IsAlreadyRegistered(fvs, decls[i]) THEN RegisterFrom(rules, fvs, decls, i + 1)
    ELSE RegisterFrom(rules, Append(fvs, ResolveFieldValidation(rules, decls[i])), decls, i + 1)

-----------------------------------------------------------------------------
(* Predicates *)

\* The predicates of the validator package the rules name.
Emails == {"a@b.se"}
ValidatorMethods == {"isEmpty", "isEmail"}

ValidatorCall(name, value) ==
    CASE name = "isEmpty" -> Bool(value[2] = "")
      [] name = "isEmail" -> Bool(value[2] \in Emails)

Member(obj, key) == IF HasOwn(obj, key) THEN obj[2][key] ELSE Undefined

\* The functions supplied as `method`, called with {value, args, form, group}:
\*   fnLength: ({value}) => value.length > 0 && value.length < 7
\*   fnMatch: ({group}) => group.a && group.b && group.a === group.b
FunctionCall(id, value, args, form, group) ==
    CASE id = "fnLength" ->
            IF TypeOf(value) = "string"
            THEN Bool(StrLen(value[2]) > 0 /\ StrLen(value[2]) < 7)
            ELSE IF TypeOf(value) = "array"
            THEN Bool(Len(value[2]) > 0 /\ Len(value[2]) < 7)
            ELSE Bool(FALSE)
      [] id = "fnMatch" ->
            IF ~Truthy(Member(group, "a")) THEN Member(group, "a")
            ELSE IF ~Truthy(Member(group, "b")) THEN Member(group, "b")
            ELSE Bool(Member(group, "a") = Member(group, "b"))

\* getValidationFunction(rule)({value, args, form, group}) raises a TypeError
\* when the named method is no function of the validator package, or when a
\* validator function is given a value that is not a string.
MethodThrows(rule, value) ==
    /\ TypeOf(rule.method) # "function"
    /\ \/ TypeOf(rule.method) # "string"
       \/ rule.method[2] \notin ValidatorMethods
       \/ TypeOf(value) # "string"

\* getValidationFunction(rule): the function the rule carries, or an arrow
\* function around validator[rule.method] built without looking the method up.
getValidationFunction(rule) ==
    IF TypeOf(rule.method) = "function" THEN rule.method ELSE Fn("validator")

\* if (!method) throw new Error("Invalid/missing validation method ...")
MissingValidationMethod(rule) == ~Truthy(getValidationFunction(rule))

validationMethod(rule, value, args, form, group) ==
    IF TypeOf(rule.method) = "function"
    THEN FunctionCall(rule.method[2], value, args, form, group)
    ELSE ValidatorCall(rule.method[2], value)

isEmpty(value) ==
    CASE TypeOf(value) = "string" -> value[2] = ""
      [] TypeOf(value) = "array" -> Len(value[2]) = 0
      [] TypeOf(value) \in {"object", "null"} -> FALSE
      [] OTHER -> Truthy(value)

\* A pass that hands every value on as it is.
NoCoercion(fieldValue) == fieldValue

\* typeof fieldValue === "number" && convertNumberToString ? fieldValue + "" : fieldValue
Coerce(fieldValue) ==
    IF TypeOf(fieldValue) = "number" /\ convertNumberToString
    THEN Str(ToString(fieldValue[2]))
    ELSE fieldValue

Last(seq) == seq[Len(seq)]

RECURSIVE GroupFrom(_, _, _, _, _)
GroupFrom(fvs, groupId, form, i, res) ==
    IF i > Len(fvs) THEN res
    ELSE IF fvs[i].groupId # groupId THEN GroupFrom(fvs, groupId, form, i + 1, res)
    ELSE GroupFrom(fvs, groupId, form, i + 1,
                   PutKey(res, Last(Split(fvs[i].field[2])),
                          getPropertyByPath(form, fvs[i].field)))

\* A group context that holds the value of the rule's own field only.
OwnFieldOnly(fvs, rule, form) ==
    IF ~Truthy(rule.groupId) THEN EmptyObject
    ELSE PutKey(EmptyObject, Last(Split(rule.field[2])),
                getPropertyByPath(form, rule.field))

getGroupSibblingValues(fvs, rule, form) ==
    IF ~Truthy(rule.groupId) THEN EmptyObject
    ELSE GroupFrom(fvs, rule.groupId, form, 1, EmptyObject)

-----------------------------------------------------------------------------
(* validate *)

\* A validation object keyed by the final segment of the field's path.
LeafKey(field) == IF field = Undefined THEN "undefined" ELSE Last(Split(field[2]))

\* The key a field has in the validation object.
FieldKey(field) == IF field = Undefined THEN "undefined" ELSE field[2]

ValidEntry == [isInvalid |-> FALSE, message |-> Str(""), groupId |-> Undefined]

\* A failure entry that does not carry the rule's groupId.
UntaggedEntry(rule) ==
    [isInvalid |-> TRUE,
     message |-> Or(rule.message, Str(defaultMessage)),
     groupId |-> Undefined]

InvalidEntry(rule) ==
    [isInvalid |-> TRUE,
     message |-> Or(rule.message, Str(defaultMessage)),
     groupId |-> rule.groupId]

\* validation[key] = entry
PutEntry(validation, key, entry) ==
    [k \in DOMAIN validation \cup {key} |-> IF k = key THEN entry ELSE validation[k]]

\* valid(): one valid entry per registered field.
valid(fvs) ==
    [k \in {FieldKey(fvs[i].field) : i \in 1..Len(fvs)} |-> ValidEntry]

NullResult == [isNull |-> TRUE, isValid |-> TRUE, fields |-> <<>>]

\* A pass that starts from the all-valid baseline every time.
FreshBaseline(result, fvs) == valid(fvs)

\* const validation = this.validationResult || this.valid()
Baseline(result, fvs) == IF result.isNull THEN valid(fvs) ELSE result.fields

\* A read that falls back on the cached form state.
ReadMergedValue(form, cache, field) ==
    IF getPropertyByPath(form, field) # Undefined
    THEN getPropertyByPath(form, field)
    ELSE getPropertyByPath(cache, field)

\* let fieldValue = this.getPropertyByPath(form, rule.field)
ReadFieldValue(form, cache, field) == getPropertyByPath(form, field)

\* A pass that does not remember the fields it has marked invalid.
NeverBlocked(invalid, key) == FALSE

\* invalidFieldsInValidationAttempt[rule.field]
Blocked(invalid, key) == key \in invalid

\* const skip = isEmpty && rule.skipIfEmpty
SkipRule(rule, value) == isEmpty(value) /\ Truthy(rule.skipIfEmpty)

\* A comparison that forgets validWhen.
MismatchIgnoringValidWhen(rule, result) == result # Bool(TRUE)

\* validationMethod(...) !== rule.validWhen
Mismatch(rule, result) == result # rule.validWhen

\* A match that leaves the other entries of the group alone.
KeepGroup(validation, rule) == validation

\* The else branch: the field's entry becomes valid and, for a rule with a
\* groupId, so does every entry tagged with that groupId.
ClearGroup(validation, rule) ==
    IF Truthy(rule.groupId)
    THEN [k \in DOMAIN validation |->
            IF validation[k].groupId = rule.groupId THEN ValidEntry ELSE validation[k]]
    ELSE validation

\* An else branch that writes nothing.
MarkNothing(validation, rule) == validation

MarkValid(validation, rule) ==
    ClearGroup(PutEntry(validation, FieldKey(rule.field), ValidEntry), rule)

MarkInvalid(validation, rule) ==
    PutEntry(validation, FieldKey(rule.field), InvalidEntry(rule))

\* validation.isValid = !Object.keys(validation).some(key => validation[key].isInvalid)
ComputeIsValid(validation) == ~\E k \in DOMAIN validation : validation[k].isInvalid

\* The body of the forEach callback for one rule. `st` carries the validation
\* object, this.formState, invalidFieldsInValidationAttempt, what happened to
\* each rule so far, the value each rule's emptiness check and predicate were
\* handed (undefined for a rule that was passed over), the keys of the entries
\* each rule changed, and whether an exception has left the loop.
Changed(before, after) ==
    {k \in DOMAIN before \cup DOMAIN after :
        \/ k \notin DOMAIN before
        \/ k \notin DOMAIN after
        \/ before[k] # after[k]}

\* The record of a rule whose predicate was not called.
NotCalled == [called |-> FALSE, form |-> Undefined, group |-> Undefined]

Observe(st, next) ==
    [next EXCEPT !.touched = Append(@, Changed(st.validation, next.validation))]

RuleStep(fvs, rule, form, st) ==
    LET key == FieldKey(rule.field)
        fieldValue == ReadFieldValue(form, st.formState, rule.field)
        fs == IF fieldValue # Undefined
              THEN bindValue(rule.field, fieldValue, st.formState)
              ELSE st.formState
        value == Coerce(fieldValue)
        skip == SkipRule(rule, value)
        group == getGroupSibblingValues(fvs, rule, fs)
        bound == [st EXCEPT !.formState = fs]
        handed == [called |-> TRUE, form |-> fs, group |-> group]
    IN  Observe(st,
        IF fieldValue = Undefined
        THEN [bound EXCEPT !.outcomes = Append(@, "undefined"),
                           !.received = Append(@, Undefined),
                           !.context = Append(@, NotCalled)]
        ELSE IF Blocked(st.invalid, key)
        THEN [bound EXCEPT !.outcomes = Append(@, "blocked"),
                           !.received = Append(@, Undefined),
                           !.context = Append(@, NotCalled)]
        ELSE IF MissingValidationMethod(rule)
        THEN [bound EXCEPT !.thrown = TRUE, !.outcomes = Append(@, "configurationError"),
                           !.received = Append(@, value),
                           !.context = Append(@, NotCalled)]
        ELSE IF skip
        THEN [bound EXCEPT !.validation = MarkValid(@, rule),
                           !.outcomes = Append(@, "skipped"),
                           !.received = Append(@, value),
                           !.context = Append(@, NotCalled)]
        ELSE IF MethodThrows(rule, value)
        THEN [bound EXCEPT !.thrown = TRUE, !.outcomes = Append(@, "threw"),
                           !.received = Append(@, value),
                           !.context = Append(@, handed)]
        ELSE IF Mismatch(rule, validationMethod(rule, value, rule.args, fs, group))
        THEN [bound EXCEPT !.validation = MarkInvalid(@, rule),
                           !.invalid = @ \cup {key},
                           !.outcomes = Append(@, "failed"),
                           !.received = Append(@, value),
                           !.context = Append(@, handed)]
        ELSE [bound EXCEPT !.validation = MarkValid(@, rule),
                           !.outcomes = Append(@, "matched"),
                           !.received = Append(@, value),
                           !.context = Append(@, handed)])

RECURSIVE RunFrom(_, _, _, _)
RunFrom(fvs, form, i, st) ==
    IF i > Len(fvs) \/ st.thrown THEN st
    ELSE RunFrom(fvs, form, i + 1, RuleStep(fvs, fvs[i], form, st))

RunRules(fvs, cache, result, form) ==
    RunFrom(fvs, form, 1,
            [validation |-> Baseline(result, fvs), formState |-> cache,
             invalid |-> {}, outcomes |-> <<>>, received |-> <<>>, touched |-> <<>>,
             context |-> <<>>, thrown |-> FALSE])

-----------------------------------------------------------------------------
(* The engine.  Beside the program's state the model records what the last  *)
(* operation was (lastOp), the partial state the last validate call, or the *)
(* name the last unregisterComponent call, was given (lastForm), what happened to each rule in that call (outcomes),     *)
(* the value each rule was evaluated on in that call (received), the form    *)
(* state and group context each predicate was called with (context), the     *)
(* templates of a second engine (peer), the result                           *)
(* and the rule list held before the last operation (prevResult, prevRules), *)
(* the declarations the last registerFieldValidations call was given         *)
(* (lastDecls) and the fields some validate call has supplied a value for    *)
(* (supplied).  The variable call belongs to the helper functions below.     *)

\* The partial states passed to validate.
Fragments ==
    {Obj(f) : f \in UNION {[S -> {Str(s) : s \in Strings}] : S \in SUBSET FieldNames}}

NoCall == [fn |-> "none", arg |-> <<>>, ret |-> <<>>]

\* No second engine has been constructed.
NoPeer == [constructed |-> FALSE, formRules |-> [n \in {} |-> NoTemplate]]

\* new FormValidator([], opts), with the global templates registered before.
Construct(templates, opts) ==
    /\ globalRules = templates
    /\ formRules = templates
    /\ fieldValidations = <<>>
    /\ formState = EmptyObject
    /\ validationResult = NullResult
    /\ formComponents = {}
    /\ convertNumberToString = opts.convertNumberToString
    /\ defaultMessage = opts.defaultMessage
    /\ lastOp = "new"
    /\ lastForm = Undefined
    /\ lastDecls = <<>>
    /\ outcomes = <<>>
    /\ received = <<>>
    /\ touched = <<>>
    /\ context = <<>>
    /\ peer = NoPeer
    /\ prevResult = NullResult
    /\ prevRules = <<>>
    /\ supplied = {}
    /\ call = NoCall

Init == Construct(RegisteredGlobalRules, DefaultOptions)

\* registerFieldValidations(decls, component); component is "" when none is passed.
RegisterFieldValidations(decls, component) ==
    \E r \in {RegisterFrom(formRules, fieldValidations, decls, 1)} :
        /\ Len(r.fieldValidations) <= MaxRules
        /\ formComponents' = IF component = "" THEN formComponents
                             ELSE formComponents \cup {component}
        /\ fieldValidations' = r.fieldValidations
        /\ lastOp' = IF r.thrown THEN "registerThrew" ELSE "register"
        /\ lastForm' = Undefined
        /\ lastDecls' = decls
        /\ outcomes' = <<>>
        /\ received' = <<>>
        /\ touched' = <<>>
        /\ context' = <<>>
        /\ prevResult' = validationResult
        /\ prevRules' = fieldValidations
        /\ UNCHANGED <<peer, globalRules, formRules, formState, validationResult, supplied,
                       options, call>>

\* validate(form). An exception leaves the loop: the entries and the form state
\* written so far stay, isValid is not recomputed and a first result is not stored.
Validate(form) ==
    \E r \in {RunRules(fieldValidations, formState, validationResult, form)} :
        /\ formState' = r.formState
        /\ validationResult' =
              IF ~r.thrown
              THEN [isNull |-> FALSE, isValid |-> ComputeIsValid(r.validation),
                    fields |-> r.validation]
              ELSE IF validationResult.isNull THEN validationResult
              ELSE [validationResult EXCEPT !.fields = r.validation]
        /\ lastOp' = IF r.thrown THEN "validateThrew" ELSE "validate"
        /\ lastForm' = form
        /\ lastDecls' = <<>>
        /\ outcomes' = r.outcomes
        /\ received' = r.received
        /\ touched' = r.touched
        /\ context' = r.context
        /\ prevResult' = validationResult
        /\ prevRules' = fieldValidations
        /\ supplied' = supplied \cup
              {k \in FieldNames : getPropertyByPath(form, Str(k)) # Undefined}
        /\ UNCHANGED <<peer, globalRules, formRules, fieldValidations, formComponents,
                       options, call>>

SetFieldValue(name, value) ==
    /\ formState' = bindValue(Str(name), value, formState)
    /\ lastOp' = "setFieldValue"
    /\ lastForm' = Undefined
    /\ lastDecls' = <<>>
    /\ outcomes' = <<>>
    /\ received' = <<>>
    /\ touched' = <<>>
    /\ context' = <<>>
    /\ prevResult' = validationResult
    /\ prevRules' = fieldValidations
    /\ UNCHANGED <<peer, globalRules, formRules, fieldValidations, validationResult,
                   formComponents, supplied, options, call>>

\* An unregisterComponent that removes the rules and keeps the entry.
UnregisterKeepsEntry(fieldName) ==
    LET Other(fv) == fv.field # Str(fieldName)
    IN  /\ formComponents' = formComponents \ {fieldName}
        /\ fieldValidations' = SelectSeq(fieldValidations, Other)
        /\ lastOp' = "unregister"
        /\ lastForm' = Str(fieldName)
        /\ lastDecls' = <<>>
        /\ outcomes' = <<>>
        /\ received' = <<>>
        /\ touched' = <<>>
        /\ context' = <<>>
        /\ prevResult' = validationResult
        /\ prevRules' = fieldValidations
        /\ UNCHANGED <<peer, globalRules, formRules, formState, validationResult,
                       supplied, options, call>>

\* unregisterComponent(component), fieldName = component.props.name
UnregisterComponent(fieldName) ==
    LET Other(fv) == fv.field # Str(fieldName)
    IN  /\ formComponents' = formComponents \ {fieldName}
        /\ fieldValidations' = SelectSeq(fieldValidations, Other)
        /\ validationResult' =
              IF validationResult.isNull THEN validationResult
              ELSE [validationResult EXCEPT
                      !.fields = [k \in DOMAIN @ \ {fieldName} |-> @[k]]]
        /\ lastOp' = "unregister"
        /\ lastForm' = Str(fieldName)
        /\ lastDecls' = <<>>
        /\ outcomes' = <<>>
        /\ received' = <<>>
        /\ touched' = <<>>
        /\ context' = <<>>
        /\ prevResult' = validationResult
        /\ prevRules' = fieldValidations
        /\ UNCHANGED <<peer, globalRules, formRules, formState, supplied, options, call>>

Next ==
    \/ \E reg \in Registrations : RegisterFieldValidations(reg[1], reg[2])
    \/ \E form \in Fragments : Validate(form)
    \/ \E name \in FieldNames, s \in Strings : SetFieldValue(name, Str(s))
    \/ \E name \in FieldNames : UnregisterComponent(name)

Spec == Init /\ [][Next]_vars

-----------------------------------------------------------------------------
(* The engine given declarations that override, repeat or lack what a      *)
(* template defines (SpecRegister), and the engine constructed with either  *)
(* setting of its options, validating numbers as well as strings            *)
(* (SpecTyped).                                                             *)

\* A template that defines args.
StrictEmail ==
    [Template(Str("strictEmail"), Str("isEmail"), Bool(TRUE), Undefined, Str("Ogiltig e-postadress"))
        EXCEPT !.args = Arr(<<Obj([require_tld |-> Bool(TRUE)])>>)]

TypedGlobalRules ==
    [n \in {"required", "email", "strictEmail"} |->
        IF n = "strictEmail" THEN StrictEmail ELSE RegisteredGlobalRules[n]]

\* { name: "required", field, message }: a message of its own.
RequiredCustomA ==
    Decl(Str("a"), Str("required"), Undefined, Str("Custom"), Undefined, Undefined, Undefined)
\* { field, method }: nothing but a function.
LengthB == Decl(Str("b"), Undefined, Fn("fnLength"), Undefined, Undefined, Undefined, Undefined)
\* A named declaration that sets everything the template may define.
EmailOverrideB ==
    [Decl(Str("b"), Str("email"), Fn("fnLength"), Undefined, Bool(FALSE), Bool(FALSE), Undefined)
        EXCEPT !.args = Arr(<<Str("sv-SE")>>)]
StrictEmailB ==
    [Decl(Str("b"), Str("strictEmail"), Undefined, Str("Custom"), Undefined, Bool(FALSE), Undefined)
        EXCEPT !.args = Arr(<<Str("sv-SE")>>)]
\* A name no template carries, and no method.
UnknownA ==
    Decl(Str("a"), Str("nosuch"), Undefined, Undefined, Undefined, Undefined, Undefined)

\* A declaration with neither field nor name.
Anonymous ==
    Decl(Undefined, Undefined, Fn("fnLength"), Str("Custom"), Undefined, Undefined, Undefined)

TypedDecls == {RequiredA, RequiredCustomA, LengthB, EmailOverrideB, StrictEmailB, UnknownA}

DeclRegistrations ==
    {<<<<RequiredCustomA>>, "a">>, <<<<RequiredA, RequiredA>>, "a">>, <<<<LengthB>>, "b">>,
     <<<<EmailOverrideB>>, "b">>, <<<<StrictEmailB>>, "b">>, <<<<UnknownA>>, "a">>,
     <<<<LengthB, Anonymous>>, "">>, <<<<Anonymous, UnknownA>>, "">>}

InitRegister == Construct(TypedGlobalRules, DefaultOptions)

NextRegister ==
    \/ \E reg \in DeclRegistrations : RegisterFieldValidations(reg[1], reg[2])
    \/ \E name \in FieldNames : UnregisterComponent(name)

SpecRegister == InitRegister /\ [][NextRegister]_vars

\* { field, method: "isNope" }: a method name the validator package lacks.
UnlistedA == Decl(Str("a"), Undefined, Str("isNope"), Undefined, Undefined, Undefined, Undefined)

\* Declarations with a message of their own (StrictEmailB), with the
\* template's (RequiredA) and with none (LengthB, UnknownA, UnlistedA).
MessageDecls == {RequiredA, StrictEmailB, LengthB, UnknownA, UnlistedA}

TypedRegistrations ==
    {<<<<RequiredA>>, "a">>, <<<<StrictEmailB>>, "b">>, <<<<LengthB>>, "b">>,
     <<<<UnknownA>>, "a">>, <<<<UnlistedA>>, "a">>}

TypedOptions == [convertNumberToString : BOOLEAN, defaultMessage : {"Invalid", "Fel"}]

\* The partial states passed to validate: numbers as well as strings.
TypedValues(k) ==
    IF k = "a" THEN {Str(""), Num(5)} ELSE {Str("foobarbaz"), Num(0), Num(5)}
TypedFragments ==
    {Obj(f) : f \in UNION {{g \in [S -> {Str(""), Str("foobarbaz"), Num(0), Num(5)}] :
                                \A k \in S : g[k] \in TypedValues(k)}
                            : S \in SUBSET FieldNames}}

InitTyped == \E opts \in TypedOptions : Construct(TypedGlobalRules, opts)

NextTyped ==
    \/ \E reg \in TypedRegistrations : RegisterFieldValidations(reg[1], reg[2])
    \/ \E form \in TypedFragments : Validate(form)

SpecTyped == InitTyped /\ [][NextTyped]_vars

-----------------------------------------------------------------------------
(* The template registries: the static globalRules, the formRules of the    *)
(* engine and those of a second engine (peer) constructed while the first    *)
(* lives.  SpecTemplates registers and clears global templates, registers    *)
(* instance templates on either engine and registers declarations that name  *)
(* them.                                                                     *)

\* Templates registered after the engine was constructed.
LateRequired ==
    Template(Str("required"), Str("isEmail"), Bool(TRUE), Bool(FALSE), Str("Late"))
LocalRequired ==
    Template(Str("required"), Str("isEmpty"), Bool(FALSE), Bool(TRUE), Str("Local"))
Zip == Template(Str("zip"), Fn("fnLength"), Bool(TRUE), Undefined, Str("Zip"))
\* Templates without a name, and with the empty string for a name.
Nameless == Template(Undefined, Str("isEmail"), Bool(TRUE), Bool(FALSE), Str("Nameless"))
EmptyNamed == Template(Str(""), Str("isEmail"), Bool(TRUE), Undefined, Str("Unnamed"))

GlobalLists == {<<LateRequired>>, <<Zip, Nameless>>}
FormLists == {<<LocalRequired>>, <<Zip, Nameless, LocalRequired>>, <<EmptyNamed>>}
\* The first argument of the constructor of the second engine.
PeerLists == {<<>>, <<Zip, Nameless, LocalRequired>>}

ZipB == Decl(Str("b"), Str("zip"), Undefined, Undefined, Undefined, Undefined, Undefined)
TemplateDecls == {RequiredA, ZipB}
TemplateRegistrations == {<<<<RequiredA>>, "">>, <<<<ZipB>>, "">>}

\* A registry in which the first template registered under a name stays.
StoreIfAbsent(rules, rule) ==
    [n \in DOMAIN rules \cup {PropertyKey(rule.name)} |->
        IF n \in DOMAIN rules THEN rules[n] ELSE rule]

\* rules[rule.name] = rule
StoreTemplate(rules, rule) ==
    [n \in DOMAIN rules \cup {PropertyKey(rule.name)} |->
        IF n = PropertyKey(rule.name) THEN rule ELSE rules[n]]

\* The forEach of registerGlobalRules over list[i..].
RECURSIVE StoreFrom(_, _, _)
StoreFrom(rules, list, i) ==
    IF i > Len(list) THEN rules
    ELSE StoreFrom(StoreTemplate(rules, list[i]), list, i + 1)

\* A registry that takes any template.
NeverMissingName(rule) == FALSE

\* if (!rule.name)
MissingName(rule) == ~Truthy(rule.name)

\* The forEach of registerFormRules over list[i..]; `thrown` is set by the
\* template without a name, and ends the loop.
RECURSIVE RegisterFormRulesFrom(_, _, _)
RegisterFormRulesFrom(rules, list, i) ==
    IF i > Len(list) THEN [formRules |-> rules, thrown |-> FALSE]
    ELSE IF MissingName(list[i]) THEN [formRules |-> rules, thrown |-> TRUE]
    ELSE RegisterFormRulesFrom(StoreTemplate(rules, list[i]), list, i + 1)

\* What an operation other than validate and registerFieldValidations records.
Returned(op) ==
    /\ lastOp' = op
    /\ lastForm' = Undefined
    /\ lastDecls' = <<>>
    /\ outcomes' = <<>>
    /\ received' = <<>>
    /\ touched' = <<>>
    /\ context' = <<>>
    /\ prevResult' = validationResult
    /\ prevRules' = fieldValidations

\* An engine whose formRules is the global object itself, not a copy of it.
RegisterGlobalRulesShared(rules) ==
    /\ globalRules' = StoreFrom(globalRules, rules, 1)
    /\ formRules' = globalRules'
    /\ Returned("registerGlobalRules")
    /\ call' = [fn |-> "registerGlobalRules", arg |-> rules, ret |-> <<>>]
    /\ UNCHANGED <<peer, fieldValidations, formState, validationResult, formComponents,
                   supplied, options>>

\* FormValidator.registerGlobalRules(rules)
RegisterGlobalRules(rules) ==
    /\ globalRules' = StoreFrom(globalRules, rules, 1)
    /\ Returned("registerGlobalRules")
    /\ call' = [fn |-> "registerGlobalRules", arg |-> rules, ret |-> <<>>]
    /\ UNCHANGED <<peer, formRules, fieldValidations, formState, validationResult,
                   formComponents, supplied, options>>

\* FormValidator.clearGlobalRules()
ClearGlobalRules ==
    /\ globalRules' = [n \in {} |-> NoTemplate]
    /\ Returned("clearGlobalRules")
    /\ call' = [fn |-> "clearGlobalRules", arg |-> <<>>, ret |-> <<>>]
    /\ UNCHANGED <<peer, formRules, fieldValidations, formState, validationResult,
                   formComponents, supplied, options>>

\* A registerFormRules that resolves the registered rules anew.
RegisterFormRulesLive(rules) ==
    \E r \in {RegisterFormRulesFrom(formRules, rules, 1)} :
        /\ formRules' = r.formRules
        /\ fieldValidations' =
              [i \in 1..Len(fieldValidations) |->
                  ResolveFieldValidation(r.formRules, fieldValidations[i])]
        /\ Returned(IF r.thrown THEN "registerFormRulesThrew" ELSE "registerFormRules")
        /\ call' = [fn |-> "registerFormRules", arg |-> rules, ret |-> <<>>]
        /\ UNCHANGED <<peer, globalRules, formState, validationResult,
                       formComponents, supplied, options>>

\* registerFormRules(rules) on the engine.
RegisterFormRules(rules) ==
    \E r \in {RegisterFormRulesFrom(formRules, rules, 1)} :
        /\ formRules' = r.formRules
        /\ Returned(IF r.thrown THEN "registerFormRulesThrew" ELSE "registerFormRules")
        /\ call' = [fn |-> "registerFormRules", arg |-> rules, ret |-> <<>>]
        /\ UNCHANGED <<peer, globalRules, fieldValidations, formState, validationResult,
                       formComponents, supplied, options>>

\* new FormValidator(validationRules): a second engine. Its formRules start as
\* a copy of the global templates; the constructor hands validationRules to
\* registerFormRules, and no engine comes to be when that throws.
ConstructPeer(validationRules) ==
    \E r \in {RegisterFormRulesFrom(globalRules, validationRules, 1)} :
        /\ peer' = IF r.thrown THEN NoPeer
                   ELSE [constructed |-> TRUE, formRules |-> r.formRules]
        /\ Returned(IF r.thrown THEN "newThrew" ELSE "newPeer")
        /\ call' = [fn |-> "new", arg |-> validationRules, ret |-> <<>>]
        /\ UNCHANGED <<globalRules, formRules, fieldValidations, formState,
                       validationResult, formComponents, supplied, options>>

\* registerFormRules(rules) on the second engine.
PeerRegisterFormRules(rules) ==
    \E r \in {RegisterFormRulesFrom(peer.formRules, rules, 1)} :
        /\ peer.constructed
        /\ peer' = [peer EXCEPT !.formRules = r.formRules]
        /\ Returned(IF r.thrown THEN "peerRegisterFormRulesThrew"
                    ELSE "peerRegisterFormRules")
        /\ call' = [fn |-> "peerRegisterFormRules", arg |-> rules, ret |-> <<>>]
        /\ UNCHANGED <<globalRules, formRules, fieldValidations, formState,
                       validationResult, formComponents, supplied, options>>

InitTemplates == Construct(RegisteredGlobalRules, DefaultOptions)

NextTemplates ==
    \/ \E rules \in GlobalLists : RegisterGlobalRules(rules)
    \/ ClearGlobalRules
    \/ \E rules \in FormLists : RegisterFormRules(rules)
    \/ \E rules \in PeerLists : ConstructPeer(rules)
    \/ PeerRegisterFormRules(<<LocalRequired>>)
    \/ \E reg \in TemplateRegistrations : RegisterFieldValidations(reg[1], reg[2])

SpecTemplates == InitTemplates /\ [][NextTemplates]_vars

-----------------------------------------------------------------------------
(* Templates replaced while rules resolved from them are registered         *)
(* (SpecReplace): the rule on field a names "required", and validate is      *)
(* called before and after the template of that name is replaced.            *)

ReplaceFragments == {Obj([a |-> Str(s)]) : s \in {"", "a@b.se"}}

NextReplace ==
    \/ \E rules \in GlobalLists : RegisterGlobalRules(rules)
    \/ ClearGlobalRules
    \/ \E rules \in FormLists : RegisterFormRules(rules)
    \/ \E reg \in TemplateRegistrations : RegisterFieldValidations(reg[1], reg[2])
    \/ \E form \in ReplaceFragments : Validate(form)
    \/ UnregisterComponent("a")

SpecReplace == InitTemplates /\ [][NextReplace]_vars

-----------------------------------------------------------------------------
(* Rules on dotted field paths, some of them in a group (SpecNested): the   *)
(* partial states are nested objects, whole or lacking a container.          *)

\* { field: "company.name", method: "isEmpty", validWhen: false }
NestedRequired ==
    Decl(Str("company.name"), Undefined, Str("isEmpty"), Undefined, Bool(FALSE),
         Undefined, Undefined)
\* Rules of one group on paths that end in different segments (company.city,
\* owner.name) and in the same segment (company.name, owner.name).
CompanyName ==
    Decl(Str("company.name"), Undefined, Fn("fnLength"), Undefined, Undefined,
         Bool(FALSE), Str("g"))
CompanyCity ==
    Decl(Str("company.city"), Undefined, Fn("fnLength"), Undefined, Undefined,
         Bool(FALSE), Str("g"))
OwnerName ==
    Decl(Str("owner.name"), Undefined, Fn("fnLength"), Undefined, Undefined,
         Bool(FALSE), Str("g"))

NestedRegistrations ==
    {<<<<NestedRequired>>, "">>, <<<<CompanyCity, OwnerName>>, "">>,
     <<<<CompanyName>>, "">>, <<<<OwnerName>>, "">>}

NestedPaths == {"company.name", "company.city", "owner.name"}
NestedValues == {Str(""), Str("foobarbaz")}

\* The partial states passed to validate: one or two nested values, a
\* container that is a string, and the empty object.
NestedFragments ==
    {EmptyObject, Obj([company |-> Str("foobarbaz")])}
    \cup {Obj([company |-> Obj([name |-> v])]) : v \in NestedValues}
    \cup {Obj([company |-> Obj([city |-> v])]) : v \in NestedValues}
    \cup {Obj([owner |-> Obj([name |-> v])]) : v \in NestedValues}
    \cup {Obj([company |-> Obj([name |-> Str("foobarbaz")]), owner |-> Obj([name |-> v])]) :
            v \in NestedValues}

InitNested == Construct(RegisteredGlobalRules, DefaultOptions)

NextNested ==
    \/ \E reg \in NestedRegistrations : RegisterFieldValidations(reg[1], reg[2])
    \/ \E form \in NestedFragments : Validate(form)
    \/ \E name \in {"company.city", "owner.name"} : SetFieldValue(name, Str("foobarbaz"))

SpecNested == InitNested /\ [][NextNested]_vars

-----------------------------------------------------------------------------
(* The field binding (src/src/withValidation.js): components wrapped with   *)
(* withValidation mount, receive change and blur events and unmount          *)
(* (SpecBinding).  The form itself calls validate with its state.  call      *)
(* holds the handler called last with the component's name and the event's   *)
(* value.                                                                    *)

\* The props of the mounted components: name, validate, validateOn and value.
ComponentProps(name) ==
    [name |-> name, validate |-> Str("required"), value |-> Str(""),
     validationMessage |-> Undefined, validationGroup |-> Undefined,
     validateOn |-> IF name = "a" THEN Str("change") ELSE Undefined]

\* parseArray(value): "foo" -> ["foo"], "foo|bar" -> ["foo", "bar"], an array
\* is returned as it is and anything else becomes a list of one.
parseArray(value) ==
    CASE TypeOf(value) = "array" -> value[2]
      [] value = Str("blur|change") -> <<Str("blur"), Str("change")>>
      [] OTHER -> <<value>>

\* validateOn = this.parseArray(this.props.validateOn || "blur")
validateOn(props) == parseArray(Or(props.validateOn, Str("blur")))

\* this.validateOn.includes(event)
Includes(list, event) == \E i \in 1..Len(list) : list[i] = Str(event)

\* The methods a FormValidator has.
EngineMethods ==
    {"validate", "valid", "registerFormRules", "registerFieldValidations",
     "getPropertyByPath", "isEmpty", "setFieldValue", "getValidationFunction",
     "reRenderForm", "unregisterComponent", "getGroupSibblingValues", "log"}

\* The map callback of registerValidationRules for a rule given by name.
BindingDecl(rules, props, rule) ==
    LET t == LookupTemplate(rules, rule)
    IN  [field |-> Str(props.name), name |-> t.name, method |-> t.method,
         message |-> Or(props.validationMessage, t.message), args |-> t.args,
         validWhen |-> t.validWhen, skipIfEmpty |-> t.skipIfEmpty,
         groupId |-> props.validationGroup]

\* if (!this.validator.formRules[rule]) throw new Error("Missing validation rule ...")
MissingRule(rules, rule) == PropertyKey(rule) \notin DOMAIN rules

\* componentDidMount: registerValidationRules, then setFieldValue(name, value).
Mount(name) ==
    LET props == ComponentProps(name)
        validate == parseArray(props.validate)
        missing == \E i \in 1..Len(validate) : MissingRule(formRules, validate[i])
        decls == [i \in 1..Len(validate) |-> BindingDecl(formRules, props, validate[i])]
    IN  \E r \in {RegisterFrom(formRules, fieldValidations, decls, 1)} :
            /\ name \notin formComponents
            /\ Len(r.fieldValidations) <= MaxRules
            /\ formComponents' = IF missing THEN formComponents
                                 ELSE formComponents \cup {name}
            /\ fieldValidations' = IF missing THEN fieldValidations
                                   ELSE r.fieldValidations
            /\ formState' = IF missing \/ r.thrown \/ props.value = Undefined
                            THEN formState
                            ELSE bindValue(Str(name), props.value, formState)
            /\ Returned(IF missing \/ r.thrown THEN "mountThrew" ELSE "mount")
            /\ call' = [fn |-> "componentDidMount", arg |-> [name |-> name], ret |-> <<>>]
            /\ UNCHANGED <<peer, globalRules, formRules, validationResult, supplied,
                           options>>

\* handleChange / handleBlur: with the event among validateOn the handler
\* calls this.validator.setInputValue(e).validate(); a FormValidator has no
\* method setInputValue, so the call raises a TypeError before validate and
\* before props.onChange / props.onBlur.
Handle(event, name, value) ==
    LET validates == Includes(validateOn(ComponentProps(name)), event)
        thrown == validates /\ "setInputValue" \notin EngineMethods
        handler == IF event = "change" THEN "handleChange" ELSE "handleBlur"
    IN  /\ name \in formComponents
        /\ Returned(IF thrown THEN handler \o "Threw" ELSE handler)
        /\ call' = [fn |-> handler, arg |-> [name |-> name, value |-> value],
                    ret |-> <<>>]
        /\ UNCHANGED <<peer, globalRules, formRules, fieldValidations, formState,
                       validationResult, formComponents, supplied, options>>

\* componentWillUnmount
Unmount(name) ==
    /\ name \in formComponents
    /\ UnregisterComponent(name)

NextBinding ==
    \/ \E name \in FieldNames : Mount(name)
    \/ \E name \in FieldNames, value \in {Str(""), Str("foobarbaz")} :
          Handle("change", name, value)
    \/ \E name \in FieldNames, value \in {Str(""), Str("foobarbaz")} :
          Handle("blur", name, value)
    \/ \E name \in FieldNames : Unmount(name)
    \/ \E form \in Fragments : Validate(form)

SpecBinding == Init /\ [][NextBinding]_vars

-----------------------------------------------------------------------------
(* The helper functions on their own: isEmpty and bindValue applied to      *)
(* inputs of every kind.  call holds the function called last, what it was  *)
(* given and what it returned; the engine is left as constructed.           *)

engine == <<globalRules, formRules, fieldValidations, formState, validationResult,
            formComponents, convertNumberToString, defaultMessage,
            lastOp, lastForm, lastDecls, outcomes, received, touched, prevResult,
            prevRules, supplied, context, peer>>

\* Values handed to isEmpty.
EmptinessInputs ==
    {Undefined, Null, Str(""), Str("a@b.se"), Num(0), Num(5), Bool(TRUE), Bool(FALSE),
     Arr(<<>>), Arr(<<Str("foo"), Str("bar")>>), EmptyObject,
     Obj([name |-> Str("")]), Fn("fnLength")}

\* Targets, paths and values handed to bindValue.
Since == DateOf("2019-03-01T00:00:00.000Z")
BindTargets ==
    {EmptyObject,
     Obj([a |-> Str("foobarbaz")]),
     Obj([a |-> Str("foobarbaz"), b |-> Num(5)]),
     Obj([company |-> Obj([name |-> Str("a@b.se"), city |-> Str("foobarbaz")])]),
     Obj([company |-> Obj([city |-> Str("foobarbaz")]), b |-> Bool(TRUE)]),
     Obj([a |-> Since]),
     Obj([company |-> Obj([city |-> Since])])}
BindPaths == {"a", "b", "company.name", "company.city"}
BindValues == {Str(""), Str("a@b.se"), Num(1), Bool(FALSE), Obj([name |-> Str("foo")])}

IsEmptyCall(value) ==
    /\ call' = [fn |-> "isEmpty", arg |-> value, ret |-> isEmpty(value)]
    /\ UNCHANGED engine

\* The caller builds the target and the value, then calls bindValue.
BindValueCall(path, value, target) ==
    LET t == Alloc(<<>>, target)
        v == Alloc(t.heap, value)
    IN  /\ call' = [fn |-> "bindValue",
                    arg |-> [heap |-> v.heap, path |-> Str(path), value |-> v.cell,
                             target |-> t.cell],
                    ret |-> heapBindValue(v.heap, Str(path), v.cell, t.cell)]
        /\ UNCHANGED engine

NextHelpers ==
    \/ \E value \in EmptinessInputs : IsEmptyCall(value)
    \/ \E path \in BindPaths, value \in BindValues, target \in BindTargets :
          BindValueCall(path, value, target)

SpecHelpers == Init /\ [][NextHelpers]_vars

-----------------------------------------------------------------------------
(* Vocabulary of the properties *)

Rules == 1..Len(fieldValidations)
RuleKey(i) == FieldKey(fieldValidations[i].field)

\* The last operation was a validate call that returned.
Validated == lastOp = "validate"

\* The partial state of the last validate call supplies a value for field k.
Supplies(k) == getPropertyByPath(lastForm, Str(k)) # Undefined

HasEntry(result, k) == ~result.isNull /\ k \in DOMAIN result.fields
IsInvalidIn(result, k) == HasEntry(result, k) /\ result.fields[k].isInvalid

\* What a rule that takes nothing but the value says of value v: it fails when
\* it is not empty-skipped and its predicate's result differs from validWhen.
RuleFailsOn(rule, v) ==
    /\ ~(isEmpty(v) /\ rule.skipIfEmpty = Bool(TRUE))
    /\ validationMethod(rule, v, rule.args, EmptyObject, EmptyObject) # rule.validWhen

NoGroupIds == \A i \in Rules : fieldValidations[i].groupId = Undefined

\* The entry a failing rule leaves.
FailureOf(rule) ==
    [isInvalid |-> TRUE,
     message |-> IF rule.message = Undefined THEN Str("Invalid") ELSE rule.message,
     groupId |-> rule.groupId]

\* Rule j carries groupId g and matched (or was empty-skipped) in the last call.
ClearedBy(j, g) ==
    /\ g # Undefined
    /\ fieldValidations[j].groupId = g
    /\ outcomes[j] \in {"matched", "skipped"}

-----------------------------------------------------------------------------
(* C1..C10: the validate pass *)

\* C1: in an engine whose rules carry no groupId, after validate(p) every
\* registered field whose value p supplies is invalid exactly when some rule on
\* it is not empty-skipped and its predicate result differs from validWhen;
\* otherwise its entry is {isInvalid: false, message: ""}.
C1_InvalidIffSomeRuleFails ==
    (Validated /\ NoGroupIds) =>
        \A i \in Rules :
            LET k == RuleKey(i)
                v == getPropertyByPath(lastForm, fieldValidations[i].field)
                fails == \E j \in Rules :
                            RuleKey(j) = k /\ RuleFailsOn(fieldValidations[j], v)
            IN  v # Undefined =>
                    /\ HasEntry(validationResult, k)
                    /\ validationResult.fields[k].isInvalid = fails
                    /\ ~fails => validationResult.fields[k] = ValidEntry

\* C1 witness: a field with two rules, the first passing and the second failing
\* on the supplied value, is invalid; another supplied field is valid.
C1_Witness ==
    /\ Validated /\ NoGroupIds
    /\ \E i, j \in Rules :
          LET v == getPropertyByPath(lastForm, fieldValidations[i].field)
          IN  /\ i < j /\ RuleKey(i) = RuleKey(j) /\ v # Undefined
              /\ ~RuleFailsOn(fieldValidations[i], v)
              /\ RuleFailsOn(fieldValidations[j], v)
              /\ IsInvalidIn(validationResult, RuleKey(i))

\* Rule i failed in the last call and no earlier rule on its field did.
FirstFailure(i) ==
    /\ outcomes[i] = "failed"
    /\ \A j \in Rules : (j < i /\ RuleKey(j) = RuleKey(i)) => outcomes[j] # "failed"

Max(S) == CHOOSE x \in S : \A y \in S : y <= x

\* The entry of key k is tagged with groupId g when rule i is evaluated: by the
\* last rule on k evaluated before i in this pass, else by the previous result.
TaggedWhen(k, i, g) ==
    LET evaluated == {j \in Rules : j < i /\ RuleKey(j) = k
                                  /\ outcomes[j] \in {"failed", "matched", "skipped"}}
    IN  IF evaluated = {}
        THEN HasEntry(prevResult, k) /\ prevResult.fields[k].groupId = g
        ELSE outcomes[Max(evaluated)] = "failed"
             /\ fieldValidations[Max(evaluated)].groupId = g

FailsAfter(k, i) == \E j \in Rules : j > i /\ RuleKey(j) = k /\ outcomes[j] = "failed"

\* The password / confirmPassword rules of the cross-field scenario.
PasswordRules ==
    <<ResolveFieldValidation(formRules, MatchA), ResolveFieldValidation(formRules, MatchB)>>

\* Both fields failed the shared rule, and the call supplies only field b, with
\* the value cached for field a.
MatchingConfirmation ==
    /\ Validated
    /\ fieldValidations = PasswordRules
    /\ IsInvalidIn(prevResult, "a") /\ IsInvalidIn(prevResult, "b")
    /\ ~Supplies("a") /\ Supplies("b")
    /\ Truthy(getPropertyByPath(lastForm, Str("b")))
    /\ getPropertyByPath(lastForm, Str("b")) = getPropertyByPath(formState, Str("a"))

\* C3: when a rule with groupId g matches, every entry tagged g at that moment
\* becomes valid, also the entries of fields the call does not supply (and it
\* stays valid unless a later rule of the pass fails on the field); after both
\* password fields failed, supplying only a matching confirmation leaves both
\* fields not invalid.
C3_GroupReconciliation ==
    /\ Validated =>
          \A i \in Rules :
              (outcomes[i] = "matched" /\ fieldValidations[i].groupId # Undefined) =>
                  \A k \in DOMAIN validationResult.fields :
                      (TaggedWhen(k, i, fieldValidations[i].groupId) /\ ~FailsAfter(k, i))
                          => validationResult.fields[k] = ValidEntry
    /\ MatchingConfirmation =>
          /\ validationResult.fields["a"] = ValidEntry
          /\ validationResult.fields["b"] = ValidEntry
          /\ validationResult.isValid

\* C3 witness: the matching confirmation has been supplied.
C3_Witness == MatchingConfirmation /\ ~IsInvalidIn(validationResult, "a")

\* C4 as claimed: whenever a result is held, isValid is the conjunction of
\* !isInvalid over its entries.
C4_IsValidIsConjunction ==
    ~validationResult.isNull =>
        (validationResult.isValid
            <=> \A k \in DOMAIN validationResult.fields :
                    ~validationResult.fields[k].isInvalid)

\* C5 as claimed: the result a validate call returns has an entry for every
\* field that has a registered rule.
C5_EveryRegisteredFieldHasEntry ==
    Validated => \A i \in Rules : HasEntry(validationResult, RuleKey(i))

FailsOnCachedValue(i) ==
    /\ fieldValidations[i].groupId = Undefined
    /\ ~Supplies(RuleKey(i))
    /\ getPropertyByPath(formState, fieldValidations[i].field) # Undefined
    /\ RuleFailsOn(fieldValidations[i],
                   getPropertyByPath(formState, fieldValidations[i].field))

C7_EvaluatesCachedValues ==
    Validated =>
        \A i \in Rules :
            getPropertyByPath(formState, fieldValidations[i].field) # Undefined
                => outcomes[i] # "undefined"

\* Field k was invalid before the last call, which did not supply it.
StaleInvalid(k) == IsInvalidIn(prevResult, k) /\ ~Supplies(k)

\* C8 as claimed: a field left invalid stays invalid through a validate call
\* that does not supply it, unless a rule carrying the groupId of its entry
\* matches in that call; isValid stays false with it.
C8_PersistsUnlessGroupMatches ==
    Validated =>
        \A k \in FieldNames :
            (/\ StaleInvalid(k)
             /\ ~\E j \in Rules :
                    /\ prevResult.fields[k].groupId # Undefined
                    /\ fieldValidations[j].groupId = prevResult.fields[k].groupId
                    /\ outcomes[j] = "matched")
                => (IsInvalidIn(validationResult, k) /\ ~validationResult.isValid)

\* C8 amended: the entry is unchanged and isValid false, unless a rule carrying
\* the groupId of the entry matches or is empty-skipped in that call, which
\* makes the entry valid.
C8_PersistsUnlessGroupCleared ==
    Validated =>
        \A k \in FieldNames :
            StaleInvalid(k) =>
                IF \E j \in Rules : ClearedBy(j, prevResult.fields[k].groupId)
                THEN validationResult.fields[k] = ValidEntry
                ELSE /\ validationResult.fields[k] = prevResult.fields[k]
                     /\ ~validationResult.isValid

\* C8 witness: a call that supplies another field, whose rule matches, leaves
\* an invalid entry as it was.
C8_Witness ==
    /\ Validated
    /\ \E k \in FieldNames :
          /\ StaleInvalid(k)
          /\ validationResult.fields[k] = prevResult.fields[k]
          /\ ~validationResult.isValid
    /\ \E i \in Rules : outcomes[i] = "matched"

\* The result held before the last call is as a validate call computes it.
HeldComputedResult ==
    /\ ~prevResult.isNull
    /\ prevResult.isValid
          <=> \A k \in DOMAIN prevResult.fields : ~prevResult.fields[k].isInvalid

\* C9: validate({}) on a previously computed result leaves every entry and
\* isValid unchanged.
C9_EmptyValidateChangesNothing ==
    (Validated /\ lastForm = EmptyObject /\ HeldComputedResult)
        => validationResult = prevResult

\* C9 witness: validate({}) on a result with an invalid entry, while the cache
\* holds values.
C9_Witness ==
    /\ Validated /\ lastForm = EmptyObject /\ HeldComputedResult
    /\ \E k \in FieldNames : IsInvalidIn(prevResult, k)
    /\ formState # EmptyObject
    /\ validationResult = prevResult

\* Every rule on key k was empty-skipped in the last call.
OnlySkipped(k) == \A j \in Rules : RuleKey(j) = k => outcomes[j] = "skipped"

GroupMatched(g) ==
    \E j \in Rules :
        g # Undefined /\ fieldValidations[j].groupId = g /\ outcomes[j] = "matched"

\* C10 as claimed: an empty-skipped rule neither resets a previously invalid
\* entry of its field nor triggers group reconciliation.
C10_SkipIsNeitherPassNorFail ==
    Validated =>
        \A i \in Rules :
            outcomes[i] = "skipped" =>
                /\ (/\ IsInvalidIn(prevResult, RuleKey(i))
                    /\ OnlySkipped(RuleKey(i))
                    /\ ~GroupMatched(prevResult.fields[RuleKey(i)].groupId))
                      => IsInvalidIn(validationResult, RuleKey(i))
                /\ \A k \in FieldNames :
                      (StaleInvalid(k) /\ ~GroupMatched(prevResult.fields[k].groupId))
                          => IsInvalidIn(validationResult, k)

\* C10 amended: an empty-skipped rule never marks its field invalid, but it
\* counts as a match: the field's entry becomes {isInvalid: false, message: ""}
\* unless a later rule of the pass fails on the field, and a rule with a groupId
\* makes the entries tagged with it valid.
C10_SkipCountsAsMatch ==
    Validated =>
        \A i \in Rules :
            outcomes[i] = "skipped" =>
                /\ ~FailsAfter(RuleKey(i), i)
                      => validationResult.fields[RuleKey(i)] = ValidEntry
                /\ fieldValidations[i].groupId # Undefined =>
                      \A k \in DOMAIN validationResult.fields :
                          (TaggedWhen(k, i, fieldValidations[i].groupId) /\ ~FailsAfter(k, i))
                              => validationResult.fields[k] = ValidEntry

\* C10 witness: an empty-skipped rule with a groupId resets the invalid entry of
\* its own field and the invalid entry of a field the call does not supply.
C10_Witness ==
    /\ Validated
    /\ \E i \in Rules, k \in FieldNames :
          /\ outcomes[i] = "skipped"
          /\ OnlySkipped(RuleKey(i))
          /\ IsInvalidIn(prevResult, RuleKey(i))
          /\ validationResult.fields[RuleKey(i)] = ValidEntry
          /\ k # RuleKey(i) /\ StaleInvalid(k)
          /\ validationResult.fields[k] = ValidEntry

-----------------------------------------------------------------------------
(* C11..C20: emptiness, the form state cache, coercion, registration *)

\* Emptiness as specified: "" among the strings, length 0 among the
\* sequences, the empty map among the maps, the falsy among the other scalars.
SpecifiedEmpty(v) ==
    CASE v[1] = "string" -> v[2] = ""
      [] v[1] = "array" -> Len(v[2]) = 0
      [] v[1] = "object" -> DOMAIN v[2] = {}
      [] OTHER -> ~Truthy(v)

\* C11 as claimed: isEmpty is true for "" and false for any other string, true
\* for a sequence of length 0 and false for a longer one, true for an empty
\* map, and for the other scalars true exactly when the value is falsy.
C11_EmptinessAsSpecified ==
    (call.fn = "isEmpty" /\ call.arg[1] # "function")
        => call.ret = SpecifiedEmpty(call.arg)

\* The last operation was a validate call, whether it returned or raised.
Passed == lastOp \in {"validate", "validateThrew"}

C13_CacheHoldsFragment ==
    Validated =>
        \A k \in FieldNames :
            Supplies(k) => getPropertyByPath(formState, Str(k)) = getPropertyByPath(lastForm, Str(k))

\* The paths of the bindValue targets, as segments.
TargetPaths ==
    {<<"a">>, <<"b">>, <<"company">>, <<"company", "name">>, <<"company", "city">>}

IsPrefix(p, q) == Len(p) <= Len(q) /\ SubSeq(q, 1, Len(p)) = p
Unrelated(p, q) == ~IsPrefix(p, q) /\ ~IsPrefix(q, p)

BoundTarget == Deref(call.arg.heap, call.arg.target)
BoundResult == Deref(call.ret.heap, call.ret.cell)
BoundPath == Split(call.arg.path[2])

\* C14 as claimed: the object bindValue returns holds the value at the path,
\* with the containers on the way created, and at every other path the value
\* the target holds there.
C14_OtherPathsPreserved ==
    call.fn = "bindValue" =>
        /\ GetPath(BoundResult, BoundPath) = Deref(call.ret.heap, call.arg.value)
        /\ \A q \in TargetPaths :
              Unrelated(BoundPath, q) => GetPath(BoundResult, q) = GetPath(BoundTarget, q)

\* C15: bindValue returns an object that did not exist before the call and
\* leaves every object that did, the target and what it holds among them, as
\* it was; the object returned is the merged value the engine stores as its
\* next cache.
C15_MergeIsPure ==
    call.fn = "bindValue" =>
        /\ call.ret.cell[1] = "ref" /\ call.ret.cell[2] > Len(call.arg.heap)
        /\ \A a \in 1..Len(call.arg.heap) : call.ret.heap[a] = call.arg.heap[a]
        /\ Deref(call.ret.heap, call.arg.target) = BoundTarget
        /\ BoundResult = bindValue(call.arg.path, Deref(call.arg.heap, call.arg.value),
                                   BoundTarget)

\* C15 witness: a call that replaces a value the target holds under a nested
\* container; the result differs from the target, which still holds its value.
C15_Witness ==
    /\ call.fn = "bindValue"
    /\ Len(BoundPath) = 2
    /\ GetPath(BoundTarget, BoundPath) # Undefined
    /\ GetPath(BoundResult, BoundPath) # GetPath(BoundTarget, BoundPath)
    /\ GetPath(Deref(call.ret.heap, call.arg.target), BoundPath)
          = GetPath(BoundTarget, BoundPath)

\* The decimal string of a number.
Digits(n) ==
    CASE n = 0 -> "0"
      [] n = 5 -> "5"

\* What becomes of a rule without groupId evaluated on value v.
OutcomeOn(rule, v) ==
    IF isEmpty(v) /\ rule.skipIfEmpty = Bool(TRUE) THEN "skipped"
    ELSE IF MethodThrows(rule, v) THEN "threw"
    ELSE IF validationMethod(rule, v, rule.args, EmptyObject, EmptyObject) # rule.validWhen
    THEN "failed"
    ELSE "matched"

\* C16: a rule evaluated on a field whose value is a number is handed, for the
\* emptiness check and for the predicate, the decimal string of the number
\* when convertNumberToString is true (5 is evaluated as "5"), and the number
\* itself when it is false.
C16_NumericCoercion ==
    Passed =>
        \A i \in 1..Len(outcomes) :
            LET v == getPropertyByPath(lastForm, fieldValidations[i].field)
                x == IF convertNumberToString THEN Str(Digits(v[2])) ELSE v
            IN  (v[1] = "number" /\ outcomes[i] \notin {"undefined", "blocked"}) =>
                    /\ received[i] = x
                    /\ outcomes[i] = OutcomeOn(fieldValidations[i], x)

\* C16 witness: with the default option the number 5 passes the required rule,
\* whose predicate takes strings only.
C16_Witness ==
    /\ Validated /\ convertNumberToString
    /\ \E i \in Rules :
          /\ getPropertyByPath(lastForm, fieldValidations[i].field) = Num(5)
          /\ fieldValidations[i].method = Str("isEmpty")
          /\ received[i] = Str("5")
          /\ outcomes[i] = "matched"

\* The rule has the field and the name of declaration d.
SamePair(rule, d) == rule.field = d.field /\ rule.name = d.name

\* C17: the rule list never holds two rules with the same field and name, the
\* name being set; a registerFieldValidations call all of whose declarations
\* are named and already registered leaves the rule list as it was.
C17_NamedDeduplication ==
    /\ \A i, j \in Rules :
          (i # j /\ Truthy(fieldValidations[i].name))
              => ~SamePair(fieldValidations[i], fieldValidations[j])
    /\ (/\ lastOp = "register"
        /\ \A n \in 1..Len(lastDecls) :
              /\ Truthy(lastDecls[n].name)
              /\ \E i \in 1..Len(prevRules) : SamePair(prevRules[i], lastDecls[n]))
          => fieldValidations = prevRules

\* C17 witness: a call whose list repeats a named declaration that is
\* registered already, with another message; the rule list is as before.
C17_Witness ==
    /\ lastOp = "register"
    /\ lastDecls = <<RequiredA, RequiredA>>
    /\ \E i \in 1..Len(prevRules) :
          SamePair(prevRules[i], RequiredA) /\ prevRules[i].message = Str("Custom")
    /\ fieldValidations = prevRules

\* The declarations of the last call that carry no name, and the rules the
\* call appended that carry none.
Unnamed == {n \in 1..Len(lastDecls) : ~Truthy(lastDecls[n].name)}
AppendedUnnamed ==
    {j \in (Len(prevRules) + 1)..Len(fieldValidations) : ~Truthy(fieldValidations[j].name)}

\* C18: a registerFieldValidations call keeps the rules registered before in
\* their order at the head of the list and appends one rule for every
\* declaration without a name, also when the same declaration was registered
\* before.
C18_InlineAppended ==
    lastOp = "register" =>
        /\ Len(fieldValidations) >= Len(prevRules)
        /\ SubSeq(fieldValidations, 1, Len(prevRules)) = prevRules
        /\ Cardinality(AppendedUnnamed) = Cardinality(Unnamed)
        /\ \A j \in AppendedUnnamed :
              \E n \in Unnamed : SamePair(fieldValidations[j], lastDecls[n])
                                   /\ fieldValidations[j].method = lastDecls[n].method

\* C18 witness: the same declaration without a name registered a second time;
\* the list holds it twice.
C18_Witness ==
    /\ lastOp = "register"
    /\ lastDecls = <<LengthB>>
    /\ Len(prevRules) >= 1
    /\ \E i \in 1..Len(prevRules) :
          SamePair(prevRules[i], LengthB) /\ prevRules[i].method = LengthB.method
    /\ Len(fieldValidations) = Len(prevRules) + 1
    /\ fieldValidations[Len(fieldValidations)].method = LengthB.method

\* What the template a declaration names defines for attribute f.
TemplateOf(d) ==
    IF d.name[1] = "string" /\ d.name[2] \in DOMAIN formRules
    THEN formRules[d.name[2]]
    ELSE NoTemplate

Pick(fromTemplate, fromDecl, otherwise) ==
    IF fromTemplate # Undefined THEN fromTemplate
    ELSE IF fromDecl # Undefined THEN fromDecl
    ELSE otherwise

\* The message of declaration d: its own, else its template's, else the
\* engine's defaultMessage.
ExpectedMessage(d) == Pick(d.message, TemplateOf(d).message, Str(defaultMessage))

\* C19: the message reported for a field a rule failed on is the message of
\* the rule's declaration if it supplies one, otherwise the message of the
\* template it names, otherwise the engine's defaultMessage.
C19_MessagePrecedence ==
    Validated =>
        \A i \in Rules :
            FirstFailure(i) =>
                \E d \in MessageDecls :
                    /\ SamePair(fieldValidations[i], d)
                    /\ validationResult.fields[RuleKey(i)].isInvalid
                    /\ validationResult.fields[RuleKey(i)].message = ExpectedMessage(d)

\* C19 witness: one field reports the message of its template, the other the
\* message of its declaration, which names a template with another message.
C19_Witness ==
    /\ Validated
    /\ \E i, j \in Rules :
          /\ SamePair(fieldValidations[i], RequiredA) /\ FirstFailure(i)
          /\ SamePair(fieldValidations[j], StrictEmailB) /\ FirstFailure(j)
    /\ validationResult.fields["a"].message = Str("Field is required")
    /\ validationResult.fields["b"].message = Str("Custom")
    /\ TemplateOf(StrictEmailB).message = Str("Ogiltig e-postadress")

\* C20: every rule of the list was resolved from a declaration so that method,
\* args, validWhen and skipIfEmpty are the template's where the template
\* defines them and the declaration's otherwise; where neither defines them
\* args is the empty list, validWhen true and skipIfEmpty true.
C20_TemplateWins ==
    \A i \in Rules :
        \E d \in TypedDecls :
            LET rule == fieldValidations[i]
                t == TemplateOf(d)
            IN  /\ SamePair(rule, d)
                /\ rule.method = Pick(t.method, d.method, Undefined)
                /\ rule.args = Pick(t.args, d.args, Arr(<<>>))
                /\ rule.validWhen = Pick(t.validWhen, d.validWhen, Bool(TRUE))
                /\ rule.skipIfEmpty = Pick(t.skipIfEmpty, d.skipIfEmpty, Bool(TRUE))

\* C20 witness: a declaration that names the email template and sets method,
\* args, validWhen and skipIfEmpty itself is registered with the template's
\* method and validWhen and its own args and skipIfEmpty; beside it a rule
\* that takes every default.
C20_Witness ==
    /\ \E i \in Rules :
          /\ SamePair(fieldValidations[i], EmailOverrideB)
          /\ fieldValidations[i].method = Str("isEmail")
          /\ fieldValidations[i].validWhen = Bool(TRUE)
          /\ fieldValidations[i].skipIfEmpty = Bool(FALSE)
          /\ fieldValidations[i].args = EmailOverrideB.args
    /\ \E j \in Rules :
          /\ fieldValidations[j].name = Str("nosuch")
          /\ fieldValidations[j].args = Arr(<<>>)
          /\ fieldValidations[j].validWhen = Bool(TRUE)
          /\ fieldValidations[j].skipIfEmpty = Bool(TRUE)

-----------------------------------------------------------------------------
(* C21..C30: template registries, configuration errors, what a predicate    *)
(* is called with, dotted paths                                              *)

\* The step was a call of one of the named operations.
StepOf(ops) == lastOp' \in ops

\* The rules the step appended are the step's declarations resolved against
\* the templates the engine held before it.
AppendedResolvedAgainst(rules) ==
    \A i \in (Len(fieldValidations) + 1)..Len(fieldValidations') :
        \E j \in 1..Len(lastDecls') :
            fieldValidations'[i] = ResolveFieldValidation(rules, lastDecls'[j])

\* C21: the engine resolves names against the global templates as they were
\* when it was constructed: registerGlobalRules and clearGlobalRules leave its
\* templates (and those of every other engine) as they are, a declaration is
\* resolved against the engine's own templates, and registerFormRules on one
\* engine changes neither the global templates nor the other engine's.
C21_GlobalScopeIsolation ==
    [][/\ StepOf({"registerGlobalRules", "clearGlobalRules"}) =>
            formRules' = formRules /\ peer' = peer
       /\ StepOf({"register"}) => AppendedResolvedAgainst(formRules)
       /\ StepOf({"registerFormRules", "registerFormRulesThrew"}) =>
            globalRules' = globalRules /\ peer' = peer
       /\ StepOf({"peerRegisterFormRules", "peerRegisterFormRulesThrew"}) =>
            globalRules' = globalRules /\ formRules' = formRules]_vars

\* C21 witness: a declaration was registered after "required" was replaced
\* among the global templates and on the second engine; the rule carries the
\* template the engine was constructed with.
C21_Witness ==
    /\ lastOp = "register"
    /\ LookupTemplate(globalRules, Str("required")) = LateRequired
    /\ peer.constructed
    /\ LookupTemplate(peer.formRules, Str("required")) = LocalRequired
    /\ formRules = RegisteredGlobalRules
    /\ \E i \in Rules : /\ fieldValidations[i].name = Str("required")
                        /\ fieldValidations[i].message = Str("Field is required")

\* The rules the last registerFieldValidations call appended.
Appended == (Len(prevRules) + 1)..Len(fieldValidations)

\* C22: once registerFormRules has stored a template under a name a global
\* template carries too, the engine holds the instance template under that
\* name, and a declaration registered afterwards that names it takes message,
\* method, validWhen and skipIfEmpty from the instance template.
C22_InstanceTemplateShadowsGlobal ==
    /\ (lastOp = "registerFormRules" /\ call.arg = <<LocalRequired>>) =>
            LookupTemplate(formRules, Str("required")) = LocalRequired
    /\ (/\ lastOp = "register"
        /\ LookupTemplate(formRules, Str("required")) = LocalRequired
        /\ "required" \in DOMAIN globalRules) =>
            \A i \in Appended :
                fieldValidations[i].name = Str("required") =>
                    /\ fieldValidations[i].message = LocalRequired.message
                    /\ fieldValidations[i].method = LocalRequired.method
                    /\ fieldValidations[i].validWhen = LocalRequired.validWhen
                    /\ fieldValidations[i].skipIfEmpty = LocalRequired.skipIfEmpty

\* C22 witness: "required" is a global template and an instance template of
\* the engine, and the rule just registered under that name carries the
\* instance template's message.
C22_Witness ==
    /\ lastOp = "register"
    /\ LookupTemplate(formRules, Str("required")) = LocalRequired
    /\ LookupTemplate(globalRules, Str("required")) \in
            {RegisteredGlobalRules["required"], LateRequired}
    /\ \E i \in Appended : /\ fieldValidations[i].name = Str("required")
                           /\ fieldValidations[i].message = Str("Local")

\* C23 as claimed: a registerGlobalRules call whose list holds a template
\* without a non-empty name fails, so a call that returned was given named
\* templates only, and the global templates hold no template that lacks a name.
C23_GlobalTemplatesAreNamed ==
    /\ lastOp = "registerGlobalRules" =>
            \A i \in 1..Len(call.arg) : ~MissingName(call.arg[i])
    /\ \A n \in DOMAIN globalRules : ~MissingName(globalRules[n])

\* The list the last registry call was given holds a template whose name is
\* missing or the empty string.
GivenNameless == \E i \in 1..Len(call.arg) : ~Truthy(call.arg[i].name)

\* C24: registerFormRules, on either engine, and the constructor, which hands
\* its first argument to it, throw exactly when the list holds a template
\* without a non-empty name; no engine is constructed then.
C24_FormTemplatesNeedName ==
    /\ lastOp \in {"registerFormRules", "registerFormRulesThrew"} =>
            (lastOp = "registerFormRulesThrew" <=> GivenNameless)
    /\ lastOp \in {"peerRegisterFormRules", "peerRegisterFormRulesThrew"} =>
            (lastOp = "peerRegisterFormRulesThrew" <=> GivenNameless)
    /\ lastOp \in {"newPeer", "newThrew"} =>
            /\ lastOp = "newThrew" <=> GivenNameless
            /\ lastOp = "newThrew" => ~peer.constructed

\* C24 witness: registerFormRules has thrown for a list whose only template is
\* named "", and the engine's templates are those it was constructed with.
C24_Witness ==
    /\ lastOp = "registerFormRulesThrew"
    /\ call.arg = <<EmptyNamed>>
    /\ formRules = RegisteredGlobalRules

\* C25: registerFieldValidations throws exactly when its list holds a
\* declaration with neither field nor name, and the rule list never holds a
\* rule with neither.
C25_AnonymousDeclarationRejected ==
    /\ lastOp \in {"register", "registerThrew"} =>
            (lastOp = "registerThrew" <=>
                \E n \in 1..Len(lastDecls) : /\ ~Truthy(lastDecls[n].name)
                                             /\ ~Truthy(lastDecls[n].field))
    /\ \A i \in Rules :
            Truthy(fieldValidations[i].name) \/ Truthy(fieldValidations[i].field)

\* C25 witness: a call whose second declaration has neither field nor name has
\* thrown; of its declarations the rule list holds the first only.
C25_Witness ==
    /\ lastOp = "registerThrew"
    /\ lastDecls = <<LengthB, Anonymous>>
    /\ Len(fieldValidations) = Len(prevRules) + 1
    /\ SamePair(fieldValidations[Len(fieldValidations)], LengthB)

\* C26 as claimed: every rule of the list has a name the engine holds a
\* template for or a method of its own, a registerFieldValidations call given
\* a declaration with neither having thrown.
C26_EveryRuleHasTemplateOrMethod ==
    /\ \A i \in Rules :
            \/ /\ Truthy(fieldValidations[i].name)
               /\ PropertyKey(fieldValidations[i].name) \in DOMAIN formRules
            \/ fieldValidations[i].method # Undefined
    /\ lastOp = "register" =>
            \A n \in 1..Len(lastDecls) :
                \/ /\ Truthy(lastDecls[n].name)
                   /\ PropertyKey(lastDecls[n].name) \in DOMAIN formRules
                \/ lastDecls[n].method # Undefined

\* The method of rule i is a name the validator package has no function for.
Unlisted(i) ==
    /\ TypeOf(fieldValidations[i].method) = "string"
    /\ fieldValidations[i].method[2] \notin ValidatorMethods

\* C27 as claimed: in a validate call every rule reached whose method is a name
\* the validator package lacks, and whose field has a defined value not yet
\* marked invalid in the call, ends the call with the configuration error of
\* getValidationFunction, whether or not the value is empty.
C27_UnlistedMethodIsConfigurationError ==
    lastOp \in {"validate", "validateThrew"} =>
        \A i \in DOMAIN outcomes :
            (Unlisted(i) /\ outcomes[i] \notin {"undefined", "blocked"}) =>
                outcomes[i] = "configurationError"

\* Some rule is registered on field k.
HasRule(k) == \E j \in Rules : RuleKey(j) = k

\* C28 as claimed, for the fields that have rules: the form state a predicate
\* is called with in validate(p) holds every value p supplies, wherever the
\* rule stands in the list.
C28_PredicateSeesWholeFragment ==
    lastOp \in {"validate", "validateThrew"} =>
        \A i \in DOMAIN context :
            context[i].called =>
                \A k \in FieldNames :
                    (Supplies(k) /\ HasRule(k)) =>
                        getPropertyByPath(context[i].form, Str(k))
                            = getPropertyByPath(lastForm, Str(k))

\* The final segment of the path of rule j, and rule j's field's value in the
\* form state the predicate of rule i was called with.
Segment(j) == Last(Split(fieldValidations[j].field[2]))
CachedFor(i, j) == getPropertyByPath(context[i].form, fieldValidations[j].field)

\* Rules i and j carry the same groupId.
Siblings(i, j) ==
    /\ fieldValidations[i].groupId # Undefined
    /\ fieldValidations[j].groupId = fieldValidations[i].groupId

\* C29 as claimed: the group context a predicate is called with holds, for
\* every other rule of the group, the cached value of that rule's field under
\* the final segment of its path, and is empty for a rule without groupId.
C29_GroupHoldsEverySibling ==
    lastOp \in {"validate", "validateThrew"} =>
        \A i \in DOMAIN context :
            context[i].called =>
                IF fieldValidations[i].groupId = Undefined
                THEN context[i].group = EmptyObject
                ELSE \A j \in Rules :
                        (j # i /\ Siblings(i, j)) =>
                            Member(context[i].group, Segment(j)) = CachedFor(i, j)

\* C29 amended: the group context has one key for every final segment among
\* the paths of the group's rules, the rule's own included; under a segment it
\* holds the cached value of the field of the last rule in registration order
\* whose path ends in that segment.
C29_GroupKeyedByLastSegment ==
    lastOp \in {"validate", "validateThrew"} =>
        \A i \in DOMAIN context :
            context[i].called =>
                IF fieldValidations[i].groupId = Undefined
                THEN context[i].group = EmptyObject
                ELSE /\ DOMAIN context[i].group[2] = {Segment(j) : j \in {n \in Rules : Siblings(i, n)}}
                     /\ \A j \in Rules :
                            (/\ Siblings(i, j)
                             /\ \A n \in Rules :
                                    (n > j /\ Siblings(i, n)) => Segment(n) # Segment(j)) =>
                                Member(context[i].group, Segment(j)) = CachedFor(i, j)

\* C29 witness: the predicate of a grouped rule was called with a group context
\* that holds a sibling's value which setFieldValue or an earlier call had
\* cached, the partial state of this call not supplying it.
C29_Witness ==
    /\ lastOp = "validate"
    /\ \E i \in DOMAIN context, j \in Rules :
          /\ context[i].called /\ j # i /\ Siblings(i, j)
          /\ Segment(j) # Segment(i)
          /\ getPropertyByPath(lastForm, fieldValidations[j].field) = Undefined
          /\ Member(context[i].group, Segment(j)) = Str("foobarbaz")

\* The container and the member a dotted path of two segments names.
Container(path) == IF path \in {"company.name", "company.city"} THEN "company" ELSE "owner"
Leaf(path) == IF path = "company.city" THEN "city" ELSE "name"

\* The value partial state p holds at a dotted path: undefined when the
\* container is missing or is no object.
NestedValue(p, path) ==
    IF /\ p[1] = "object" /\ Container(path) \in DOMAIN p[2]
       /\ p[2][Container(path)][1] = "object"
       /\ Leaf(path) \in DOMAIN p[2][Container(path)][2]
    THEN p[2][Container(path)][2][Leaf(path)]
    ELSE Undefined

\* C30: no validate call on rules with dotted paths throws; a rule whose path
\* leads to no value in the partial state, a container being missing or no
\* object, is passed over and touches no entry; any other rule is evaluated
\* on the nested value unless its field was already marked invalid in the
\* call, and its field has an entry under its full dotted path; the result
\* has no key but full dotted paths of rules.
C30_DottedPaths ==
    /\ lastOp # "validateThrew"
    /\ lastOp = "validate" =>
        /\ \A i \in Rules :
              LET path == fieldValidations[i].field[2]
                  v == NestedValue(lastForm, path)
              IN  /\ path \in NestedPaths
                  /\ v = Undefined <=> outcomes[i] = "undefined"
                  /\ v = Undefined => touched[i] = {}
                  /\ outcomes[i] \notin {"undefined", "blocked"} =>
                        /\ received[i] = v
                        /\ path \in DOMAIN validationResult.fields
        /\ DOMAIN validationResult.fields \subseteq {fieldValidations[i].field[2] : i \in Rules}

\* C30 witness: of two rules on dotted paths one was evaluated on the value
\* nested in the partial state and failed, the entry under its full path being
\* invalid; the other, whose container the partial state lacks, was passed over.
C30_Witness ==
    /\ lastOp = "validate"
    /\ \E i, j \in Rules :
          /\ outcomes[i] = "failed"
          /\ received[i] = NestedValue(lastForm, fieldValidations[i].field[2])
          /\ IsInvalidIn(validationResult, fieldValidations[i].field[2])
          /\ outcomes[j] = "undefined"
          /\ Container(fieldValidations[j].field[2]) \notin DOMAIN lastForm[2]

-----------------------------------------------------------------------------
(* C31..C36: the result of a pass, what registration fixes, failed          *)
(* registrations, unregistering, the field binding                           *)

\* C32 as claimed: the field of a rule that failed in a validate call is
\* invalid in the result of that call.
C32_FailedFieldReportedInvalid ==
    Validated =>
        \A i \in Rules :
            outcomes[i] = "failed" => IsInvalidIn(validationResult, RuleKey(i))

\* C32 amended: the field of a rule that failed in a validate call is invalid
\* in the result of that call exactly when no later rule of the call carrying
\* the failed rule's groupId matched or was empty-skipped; later rules that
\* carry another groupId or none leave the entry as the failed rule wrote it.
C32_FailedFieldInvalidUnlessGroupCleared ==
    Validated =>
        \A i \in Rules :
            outcomes[i] = "failed" =>
                /\ HasEntry(validationResult, RuleKey(i))
                /\ IsInvalidIn(validationResult, RuleKey(i))
                      <=> ~\E j \in Rules :
                              j > i /\ ClearedBy(j, fieldValidations[i].groupId)
                /\ IsInvalidIn(validationResult, RuleKey(i)) =>
                      validationResult.fields[RuleKey(i)].message
                          = FailureOf(fieldValidations[i]).message

\* C32 witness: a rule failed and a rule of another field, evaluated after it
\* in the same call, matched; the first field is invalid in the result.
C32_Witness ==
    /\ Validated
    /\ \E i, j \in Rules :
          /\ i < j /\ RuleKey(i) # RuleKey(j)
          /\ outcomes[i] = "failed" /\ outcomes[j] = "matched"
          /\ IsInvalidIn(validationResult, RuleKey(i))
          /\ ~IsInvalidIn(validationResult, RuleKey(j))

\* C33: in every result held, an entry that is not invalid has message "" and
\* no groupId, and an invalid entry has a non-empty message and the groupId of
\* a rule registered on its field: the rule's own message where it has one, the
\* default message otherwise; after a validate call an entry a failed rule
\* left invalid carries that rule's message and groupId.
C33_EntryShape ==
    /\ ~validationResult.isNull =>
          \A k \in DOMAIN validationResult.fields :
              LET e == validationResult.fields[k]
              IN  IF ~e.isInvalid
                  THEN e.message = Str("") /\ e.groupId = Undefined
                  ELSE /\ e.message # Str("")
                       /\ TypeOf(e.message) = "string"
                       /\ \E i \in Rules :
                             /\ RuleKey(i) = k
                             /\ e.groupId = fieldValidations[i].groupId
                             /\ e.message = IF Truthy(fieldValidations[i].message)
                                            THEN fieldValidations[i].message
                                            ELSE Str(defaultMessage)
    /\ Validated =>
          \A i \in Rules :
              (outcomes[i] = "failed" /\ IsInvalidIn(validationResult, RuleKey(i))) =>
                  /\ validationResult.fields[RuleKey(i)].groupId
                        = fieldValidations[i].groupId
                  /\ validationResult.fields[RuleKey(i)].message
                        = IF Truthy(fieldValidations[i].message)
                          THEN fieldValidations[i].message
                          ELSE Str(defaultMessage)

\* C33 witness: a result that holds an invalid entry tagged with a groupId and
\* carrying the default message, left by the grouped rule without a message
\* that failed in the call, beside a valid entry.
C33_Witness ==
    /\ Validated
    /\ \E i \in Rules :
          /\ outcomes[i] = "failed"
          /\ fieldValidations[i].message = Undefined
          /\ fieldValidations[i].groupId = Str("g")
          /\ validationResult.fields[RuleKey(i)]
                = [isInvalid |-> TRUE, message |-> Str("Invalid"), groupId |-> Str("g")]
    /\ \E k \in DOMAIN validationResult.fields :
          validationResult.fields[k] = ValidEntry

\* C34: registerFormRules, registerGlobalRules and clearGlobalRules leave the
\* rule list, with every rule's method, args, validWhen, skipIfEmpty and
\* message, as it is; and a validate call evaluates each rule by what the rule
\* itself carries: a rule that is reached fails exactly when it is not
\* empty-skipped and its own method's result differs from its own validWhen,
\* and the entry it leaves carries its own message.
C34_RuleFixedAtRegistration ==
    /\ [][StepOf({"registerFormRules", "registerFormRulesThrew",
                  "registerGlobalRules", "clearGlobalRules"}) =>
              fieldValidations' = fieldValidations]_vars
    /\ [](Validated =>
            \A i \in Rules :
                outcomes[i] \in {"failed", "matched", "skipped"} =>
                    /\ outcomes[i] = "failed"
                          <=> RuleFailsOn(fieldValidations[i], received[i])
                    /\ outcomes[i] = "failed" =>
                          validationResult.fields[RuleKey(i)]
                              = FailureOf(fieldValidations[i]))

\* C34 witness: the rule on a was resolved from the original template
\* "required"; the engine's template of that name has been replaced by one
\* that skips empty values; validate({a: ""}) still fails the rule with the
\* original message.
C34_Witness ==
    /\ Validated
    /\ LookupTemplate(formRules, Str("required")) = LocalRequired
    /\ lastForm = Obj([a |-> Str("")])
    /\ \E i \in Rules :
          /\ fieldValidations[i].name = Str("required")
          /\ fieldValidations[i].skipIfEmpty = Bool(FALSE)
          /\ outcomes[i] = "failed"
          /\ validationResult.fields["a"].message = Str("Field is required")

\* C35 as claimed: a registerFieldValidations or registerFormRules call that
\* throws leaves the rule list and the templates of the engine as they were
\* before the call.
C35_FailedRegistrationChangesNothing ==
    [][StepOf({"registerThrew", "registerFormRulesThrew"}) =>
          fieldValidations' = fieldValidations /\ formRules' = formRules]_vars

\* The entries of a result other than that of key n.
EntriesBut(result, n) == [k \in DOMAIN result.fields \ {n} |-> result.fields[k]]

\* Sequence seq without the rules on field n.
RulesBut(seq, n) ==
    LET Other(fv) == fv.field # Str(n) IN SelectSeq(seq, Other)

\* C36: unregisterComponent for name n leaves the rule list without the rules
\* on n, the others kept in their order, and the held result without n's
\* entry, the other entries kept; and a validate call that follows it, whatever
\* it supplies, evaluates no rule on n and returns no entry for n.
C36_UnregisterRemovesField ==
    [][/\ lastOp' = "unregister" =>
            /\ fieldValidations' = RulesBut(fieldValidations, lastForm'[2])
            /\ validationResult'.isNull = validationResult.isNull
            /\ validationResult'.fields = EntriesBut(validationResult, lastForm'[2])
       /\ (lastOp = "unregister" /\ lastOp' \in {"validate", "validateThrew"}) =>
            /\ \A i \in 1..Len(fieldValidations') :
                  fieldValidations'[i].field # lastForm
            /\ lastForm[2] \notin DOMAIN validationResult'.fields]_vars

\* C36 witness: the component of field a was unregistered while rules on a and
\* b were registered and a's entry was invalid; the rule on b and b's entry
\* are left, those of a are gone.
C36_Witness ==
    /\ lastOp = "unregister" /\ lastForm = Str("a")
    /\ \E i, j \in 1..Len(prevRules) :
          prevRules[i].field = Str("a") /\ prevRules[j].field = Str("b")
    /\ IsInvalidIn(prevResult, "a") /\ HasEntry(prevResult, "b")
    /\ Len(fieldValidations) = 1 /\ fieldValidations[1].field = Str("b")
    /\ ~HasEntry(validationResult, "a")
    /\ validationResult.fields["b"] = prevResult.fields["b"]

\* The last operation was a change event on a mounted component.
ChangeEventOn(name) ==
    /\ lastOp \in {"handleChange", "handleChangeThrew"}
    /\ call.arg.name = name

\* C31 as claimed: a change event on a component whose validateOn lacks
\* "change" leaves an unset result unset, and a change event to the empty
\* value on a component with validateOn "change" and the rule "required"
\* makes the field's entry invalid.
C31_ValidateOnGatesValidation ==
    \A name \in FieldNames :
        ChangeEventOn(name) =>
            IF Includes(validateOn(ComponentProps(name)), "change")
            THEN call.arg.value = Str("") => IsInvalidIn(validationResult, name)
            ELSE prevResult.isNull => validationResult.isNull

====
